---- MODULE Spec2Model ----
(***************************************************************************)
(* A model of src/notes/base.ts of ObsidianAnkiBridge: the inline config   *)
(* validation (ParseConfig.fromResult, ParseConfigSchema) and the methods  *)
(* of NoteBase (field mapping, deck and tag resolution, the dirty check).  *)
(*                                                                         *)
(* JavaScript values are tagged records [k |-> kind, v |-> payload]; the   *)
(* kinds are "undef", "null", "bool", "num", "nan", "str", "arr", "obj".   *)
(* Tag strings, which the code edits character by character, are sequences *)
(* of one-character strings; every other string is a TLA+ string.          *)
(***************************************************************************)
EXTENDS Integers, Sequences, FiniteSets, TLC

VARIABLES
    config,      \* NoteBase.config
    isCloze,     \* NoteBase.isCloze
    fields,      \* NoteBase.fields
    sourceText,  \* NoteBase.sourceText
    folder,      \* NoteBase.source.file.parent, a path as a sequence of names
    settings,    \* plugin.settings
    cache,       \* plugin.app.metadataCache.getFileCache(source.file)
    rendered,    \* what blueprint.renderAsText(note) gives
    noteInfo,    \* the remote note (NotesInfoResponseEntity)
    result,      \* ParseNoteResult.config, the config text of a parsed block
    call,        \* the operation that ran last
    ret          \* what it returned, or the error it threw

vars == <<config, isCloze, fields, sourceText, folder, settings, cache,
          rendered, noteInfo, result, call, ret>>

----------------------------------------------------------------------------
(* JavaScript values *)

Undef == [k |-> "undef"]
Null == [k |-> "null"]
NaN == [k |-> "nan"]
Bool(b) == [k |-> "bool", v |-> b]
Num(n) == [k |-> "num", v |-> n]
Str(s) == [k |-> "str", v |-> s]
Arr(a) == [k |-> "arr", v |-> a]

\* What a call gives back: a value, or a thrown error / rejected promise.
Return(v) == [k |-> "return", v |-> v]
Throw(name, path) == [k |-> "throw", name |-> name, path |-> path]

\* The config of a note that sets nothing.
NoConfig ==
    [deck |-> Undef, tags |-> Undef, delete |-> Undef, enabled |-> Undef,
     cloze |-> Undef, clozeReplacements |-> Undef]

Range(s) == {s[i] : i \in DOMAIN s}

NoDuplicates(s) == \A i, j \in DOMAIN s : s[i] = s[j] => i = j

\* The sequences over S of length at most n.
SeqUpTo(S, n) == UNION {[1..m -> S] : m \in 0..n}

----------------------------------------------------------------------------
(* NoteBase.getTags *)

MaxDocTags == 2
MaxConfigTags == 2

\* String.prototype.replace('#', ''): the first "#" is removed.
RECURSIVE StripHash(_)
StripHash(tag) ==
    IF tag = <<>> THEN <<>>
    ELSE IF Head(tag) = "#" THEN Tail(tag)
    ELSE <<Head(tag)>> \o StripHash(Tail(tag))

\* String.prototype.replaceAll('/', '::').
RECURSIVE ReplaceSlashes(_)
ReplaceSlashes(tag) ==
    IF tag = <<>> THEN <<>>
    ELSE IF Head(tag) = "/" THEN <<":", ":">> \o ReplaceSlashes(Tail(tag))
    ELSE <<Head(tag)>> \o ReplaceSlashes(Tail(tag))

\* [...new Set(tags)]: the first occurrence of every element, in order.
RECURSIVE Unique(_)
Unique(s) ==
    IF s = <<>> THEN <<>>
    ELSE LET init == Unique(SubSeq(s, 1, Len(s) - 1))
             last == s[Len(s)]
         IN  IF last \in Range(init) THEN init ELSE Append(init, last)

\* this.config.tags || []
ConfigTags(cfg) == IF cfg.tags.k = "arr" THEN cfg.tags.v ELSE <<>>

\* getAllTags(cache): null, or the tags of the document.
getAllTags(c) == c.tags

\* getTags without the marker tag in its first return.
getTagsConfigOnly(cfg, stg, c) ==
    IF stg.inheritTags = FALSE \/ c = Null \/ getAllTags(c) = Null
    THEN ConfigTags(cfg)
    ELSE LET docTags == getAllTags(c).v
             mapped == [i \in DOMAIN docTags |->
                            ReplaceSlashes(StripHash(docTags[i]))]
         IN  Unique(mapped \o ConfigTags(cfg) \o <<stg.tagInAnki>>)

getTags(cfg, stg, c) ==
    IF stg.inheritTags = FALSE \/ c = Null \/ getAllTags(c) = Null
    THEN <<stg.tagInAnki>> \o ConfigTags(cfg)
    ELSE LET docTags == getAllTags(c).v
             mapped == [i \in DOMAIN docTags |->
                            ReplaceSlashes(StripHash(docTags[i]))]
         IN  Unique(mapped \o ConfigTags(cfg) \o <<stg.tagInAnki>>)

\* Tag names a document or a config may hold.
TagNames == {<<"o">>, <<"a">>, <<"a", "/", "b">>, <<"a", ":", ":", "b">>}

\* Obsidian reports every tag of a document with its leading "#".
DocTags == {<<"#">> \o t : t \in TagNames}

FileCaches == {Null, [tags |-> Null]}
                 \cup {[tags |-> Arr(s)] : s \in SeqUpTo(DocTags, MaxDocTags)}

TagSettings ==
    {[inheritTags |-> i, tagInAnki |-> t] : i \in BOOLEAN, t \in {<<"o">>, <<"a">>}}

TagConfigs ==
    {[NoConfig EXCEPT !.tags = t] :
        t \in {Undef} \cup {Arr(s) : s \in SeqUpTo(TagNames, MaxConfigTags)}}

InitTags ==
    /\ config \in TagConfigs
    /\ settings \in TagSettings
    /\ cache \in FileCaches
    /\ isCloze = FALSE
    /\ fields = Undef
    /\ sourceText = ""
    /\ folder = <<>>
    /\ rendered = ""
    /\ noteInfo = Undef
    /\ result = Undef
    /\ call = "none"
    /\ ret = Undef

GetTags ==
    /\ call = "none"
    /\ call' = "getTags"
    /\ ret' = Return(getTags(config, settings, cache))
    /\ UNCHANGED <<config, isCloze, fields, sourceText, folder, settings,
                   cache, rendered, noteInfo, result>>

NextTags == GetTags

SpecTags == InitTags /\ [][NextTags]_vars

\* C1: whatever the note and the settings, the tags getTags returns contain
\* settings.tagInAnki.
TagsContainTagInAnki ==
    call = "getTags" => settings.tagInAnki \in Range(ret.v)

\* C1, witnessed: inheritance disabled and no config.tags, and the result is
\* the marker tag alone.
TagsContainTagInAnkiWitness ==
    /\ call = "getTags"
    /\ settings.inheritTags = FALSE
    /\ config.tags = Undef
    /\ ret.v = <<settings.tagInAnki>>

\* C2: whatever the note and the settings, no tag occurs twice in what
\* getTags returns.
TagsHaveNoDuplicates ==
    call = "getTags" => NoDuplicates(ret.v)

----------------------------------------------------------------------------
(* NoteBase.getDeckName *)

MaxDeckMaps == 2

IsPrefix(p, q) == Len(p) <= Len(q) /\ SubSeq(q, 1, Len(p)) = p

\* The deck of the deepest configured folder that is the note's folder or an
\* ancestor of it, when exactly one entry sits at that depth.
getDefaultDeckForFolder(parent, maps) ==
    LET matches == {i \in DOMAIN maps : IsPrefix(maps[i].folder, parent)}
        deepest == {i \in matches :
                       \A j \in matches :
                           Len(maps[j].folder) <= Len(maps[i].folder)}
    IN  IF Cardinality(deepest) = 1
        THEN Str(maps[CHOOSE i \in deepest : TRUE].deck)
        ELSE Undef

\* A JavaScript string used as a condition: true unless absent or empty.
Truthy(x) == x.k = "str" /\ x.v # ""

\* getDeckName trying the folder mapping before config.deck.
getDeckNameFolderFirst(cfg, parent, stg) ==
    LET resolvedDefaultDeck ==
            getDefaultDeckForFolder(parent, stg.defaultDeckMaps)
    IN  IF Truthy(resolvedDefaultDeck)
        THEN [deck |-> resolvedDefaultDeck.v, via |-> "defaultDeckMaps"]
        ELSE IF Truthy(cfg.deck)
        THEN [deck |-> cfg.deck.v, via |-> "config"]
        ELSE [deck |-> stg.fallbackDeck, via |-> "fallbackDeck"]

\* The deck and the return statement that gave it.
getDeckName(cfg, parent, stg) ==
    IF Truthy(cfg.deck)
    THEN [deck |-> cfg.deck.v, via |-> "config"]
    ELSE LET resolvedDefaultDeck ==
                 getDefaultDeckForFolder(parent, stg.defaultDeckMaps)
         IN  IF Truthy(resolvedDefaultDeck)
             THEN [deck |-> resolvedDefaultDeck.v, via |-> "defaultDeckMaps"]
             ELSE [deck |-> stg.fallbackDeck, via |-> "fallbackDeck"]

NoteFolders == {<<>>, <<"a">>, <<"a", "b">>}

DeckMaps ==
    {[folder |-> f, deck |-> d] :
        f \in {<<>>, <<"a">>, <<"a", "b">>, <<"c">>}, d \in {"", "Folder", "Sub"}}

DeckSettings ==
    {[defaultDeckMaps |-> m, fallbackDeck |-> d] :
        m \in SeqUpTo(DeckMaps, MaxDeckMaps), d \in {"", "Default", "Folder"}}

DeckConfigs ==
    {[NoConfig EXCEPT !.deck = d] :
        d \in {Undef, Str(""), Str("Spanish"), Str("Folder")}}

InitDeck ==
    /\ config \in DeckConfigs
    /\ settings \in DeckSettings
    /\ folder \in NoteFolders
    /\ cache = Null
    /\ isCloze = FALSE
    /\ fields = Undef
    /\ sourceText = ""
    /\ rendered = ""
    /\ noteInfo = Undef
    /\ result = Undef
    /\ call = "none"
    /\ ret = Undef

GetDeckName ==
    /\ call = "none"
    /\ call' = "getDeckName"
    /\ ret' = Return(getDeckName(config, folder, settings))
    /\ UNCHANGED <<config, isCloze, fields, sourceText, folder, settings,
                   cache, rendered, noteInfo, result>>

NextDeck == GetDeckName

SpecDeck == InitDeck /\ [][NextDeck]_vars

\* C3: getDeckName resolves in strict precedence order: a non-empty
\* config.deck is returned whatever the folder mapping and the fallback hold;
\* the folder mapping's deck is returned only when config.deck is absent or
\* empty and the mapping yields a deck; settings.fallbackDeck is returned only
\* when neither of the two yields a deck.
DeckPrecedence ==
    call = "getDeckName" =>
        LET mapped == getDefaultDeckForFolder(folder, settings.defaultDeckMaps)
        IN  /\ Truthy(config.deck) =>
                /\ ret.v.via = "config"
                /\ ret.v.deck = config.deck.v
            /\ ret.v.via = "defaultDeckMaps" =>
                /\ ~Truthy(config.deck)
                /\ Truthy(mapped)
                /\ ret.v.deck = mapped.v
            /\ ret.v.via = "fallbackDeck" =>
                /\ ~Truthy(config.deck)
                /\ ~Truthy(mapped)
                /\ ret.v.deck = settings.fallbackDeck

\* C3, witnessed: config.deck wins over a folder mapping that yields another
\* deck.
DeckPrecedenceWitness ==
    /\ call = "getDeckName"
    /\ Truthy(config.deck)
    /\ Truthy(getDefaultDeckForFolder(folder, settings.defaultDeckMaps))
    /\ getDefaultDeckForFolder(folder, settings.defaultDeckMaps) # config.deck
    /\ settings.fallbackDeck # config.deck.v
    /\ ret.v.deck = config.deck.v

----------------------------------------------------------------------------
(* NoteBase.fieldsToAnkiFields, normaliseNoteInfoFields, getModelName *)

\* fields[slot] || '': a missing, null or empty value gives the empty string.
OrEmpty(x) == IF Truthy(x) THEN x.v ELSE ""

\* fieldsToAnkiFields with the two slots swapped.
fieldsToAnkiFieldsSwapped(flds, cloze, stg) ==
    LET namesPack == IF cloze THEN stg.clozeNoteTypeNames
                     ELSE stg.basicNoteTypeNames
        frontLike == namesPack.fieldNames.frontLike
        backLike == namesPack.fieldNames.backLike
    IN  [n \in {frontLike, backLike} |->
            IF n = backLike THEN OrEmpty(flds.Frontlike)
            ELSE OrEmpty(flds.Backlike)]

\* The remote field names and the content each gets. Both keys are written
\* into one object literal, frontLike first: when the two names are equal the
\* second write replaces the first.
fieldsToAnkiFields(flds, cloze, stg) ==
    LET namesPack == IF cloze THEN stg.clozeNoteTypeNames
                     ELSE stg.basicNoteTypeNames
        frontLike == namesPack.fieldNames.frontLike
        backLike == namesPack.fieldNames.backLike
    IN  [n \in {frontLike, backLike} |->
            IF n = backLike THEN OrEmpty(flds.Backlike)
            ELSE OrEmpty(flds.Frontlike)]

getModelName(cloze, stg) ==
    IF cloze THEN stg.clozeNoteTypeNames.noteTypeName
    ELSE stg.basicNoteTypeNames.noteTypeName

\* normaliseNoteInfoFields taking a missing remote field for the empty string.
normaliseNoteInfoFieldsDefaulting(info, stg) ==
    LET cloze == info.modelName = stg.clozeNoteTypeNames.noteTypeName
        namesPack == IF cloze THEN stg.clozeNoteTypeNames
                     ELSE stg.basicNoteTypeNames
        frontlike == namesPack.fieldNames.frontLike
        backlike == namesPack.fieldNames.backLike
        valueOf(n) == IF n \in DOMAIN info.fields THEN info.fields[n].value
                      ELSE ""
    IN  Return([Frontlike |-> Str(valueOf(frontlike)),
                Backlike |-> Str(valueOf(backlike))])

\* noteInfo.fields[name].value: reading .value of a field the remote note
\* does not have throws a TypeError.
normaliseNoteInfoFields(info, stg) ==
    LET cloze == info.modelName = stg.clozeNoteTypeNames.noteTypeName
        namesPack == IF cloze THEN stg.clozeNoteTypeNames
                     ELSE stg.basicNoteTypeNames
        frontlike == namesPack.fieldNames.frontLike
        backlike == namesPack.fieldNames.backLike
    IN  IF frontlike \notin DOMAIN info.fields
        THEN Throw("TypeError", frontlike)
        ELSE IF backlike \notin DOMAIN info.fields
        THEN Throw("TypeError", backlike)
        ELSE Return([Frontlike |-> Str(info.fields[frontlike].value),
                     Backlike |-> Str(info.fields[backlike].value)])

\* The note the remote store holds once it has stored a payload under a
\* model name.
StoredNote(modelName, ankiFields) ==
    [modelName |-> modelName,
     fields |-> [n \in DOMAIN ankiFields |-> [value |-> ankiFields[n]]]]

FieldNames == {"Front", "Back", "Text"}

NamesPacks ==
    {[noteTypeName |-> t, fieldNames |-> [frontLike |-> f, backLike |-> b]] :
        t \in {"Basic", "Cloze"}, f \in FieldNames, b \in FieldNames}

FieldSettings ==
    {[basicNoteTypeNames |-> b, clozeNoteTypeNames |-> c] :
        b \in NamesPacks, c \in NamesPacks}

NoteFieldsSet ==
    {[Frontlike |-> f, Backlike |-> b] :
        f \in {Null, Str(""), Str("q")}, b \in {Null, Str(""), Str("a"), Str("q")}}

\* Notes of the remote store, whatever their origin.
RemoteNotes ==
    {[modelName |-> m, fields |-> [n \in ns |-> [value |-> "x"]]] :
        m \in {"Basic", "Cloze", "Other"}, ns \in SUBSET FieldNames}

InitFields ==
    /\ config = NoConfig
    /\ settings \in FieldSettings
    /\ fields \in NoteFieldsSet
    /\ isCloze \in BOOLEAN
    /\ folder = <<>>
    /\ cache = Null
    /\ sourceText = ""
    /\ rendered = ""
    /\ noteInfo = Undef
    /\ result = Undef
    /\ call = "none"
    /\ ret = Undef

FieldsToAnkiFields ==
    /\ call = "none"
    /\ call' = "fieldsToAnkiFields"
    /\ ret' = Return(fieldsToAnkiFields(fields, isCloze, settings))
    /\ UNCHANGED <<config, isCloze, fields, sourceText, folder, settings,
                   cache, rendered, noteInfo, result>>

\* The remote store takes the payload, under the note's model name.
StoreNote ==
    /\ call = "fieldsToAnkiFields"
    /\ call' = "storeNote"
    /\ noteInfo' = StoredNote(getModelName(isCloze, settings), ret.v)
    /\ UNCHANGED <<config, isCloze, fields, sourceText, folder, settings,
                   cache, rendered, result, ret>>

\* The remote store reports some note of its own.
NotesInfo ==
    /\ call = "none"
    /\ call' = "notesInfo"
    /\ noteInfo' \in RemoteNotes
    /\ UNCHANGED <<config, isCloze, fields, sourceText, folder, settings,
                   cache, rendered, result, ret>>

NormaliseNoteInfoFields ==
    /\ call \in {"storeNote", "notesInfo"}
    /\ call' = "normaliseNoteInfoFields"
    /\ ret' = normaliseNoteInfoFields(noteInfo, settings)
    /\ UNCHANGED <<config, isCloze, fields, sourceText, folder, settings,
                   cache, rendered, noteInfo, result>>

NextFields ==
    \/ FieldsToAnkiFields
    \/ StoreNote
    \/ NotesInfo
    \/ NormaliseNoteInfoFields

SpecFields == InitFields /\ [][NextFields]_vars

\* The pack fieldsToAnkiFields and getModelName use for this note.
OwnPack == IF isCloze THEN settings.clozeNoteTypeNames
           ELSE settings.basicNoteTypeNames

StringFields == fields.Frontlike.k = "str" /\ fields.Backlike.k = "str"

\* The remote note is this note's own fields, mapped outbound and stored
\* under the note's model name.
RoundTripped ==
    /\ call = "normaliseNoteInfoFields"
    /\ noteInfo = StoredNote(getModelName(isCloze, settings),
                             fieldsToAnkiFields(fields, isCloze, settings))

\* C4 as stated: for every settings snapshot and all string values of the two
\* slots, mapping outbound and then inbound returns the original values.
RoundTripAnySettings ==
    (RoundTripped /\ StringFields) => ret = Return(fields)

\* The note's names pack has two different field names and a basic note's
\* type name is not the cloze type name.
DistinctNames ==
    /\ OwnPack.fieldNames.frontLike # OwnPack.fieldNames.backLike
    /\ isCloze \/ settings.basicNoteTypeNames.noteTypeName
                      # settings.clozeNoteTypeNames.noteTypeName

\* C4: the round trip returns the original string values when the note's
\* names pack has two different field names and, for a basic note, the basic
\* note type name is not the cloze note type name.
RoundTrip ==
    (RoundTripped /\ StringFields /\ DistinctNames) => ret = Return(fields)

\* C4, witnessed: a cloze note with two different non-empty values came back.
RoundTripWitness ==
    /\ RoundTripped
    /\ isCloze
    /\ fields = [Frontlike |-> Str("q"), Backlike |-> Str("a")]
    /\ OwnPack.fieldNames.frontLike # OwnPack.fieldNames.backLike
    /\ ret = Return(fields)

\* The pack normaliseNoteInfoFields selects for the remote note.
RemotePack ==
    IF noteInfo.modelName = settings.clozeNoteTypeNames.noteTypeName
    THEN settings.clozeNoteTypeNames
    ELSE settings.basicNoteTypeNames

LacksField ==
    \/ RemotePack.fieldNames.frontLike \notin DOMAIN noteInfo.fields
    \/ RemotePack.fieldNames.backLike \notin DOMAIN noteInfo.fields

----------------------------------------------------------------------------
(* NoteBase.getEnabled, shouldUpdateFile *)

\* getEnabled taking an absent config.enabled for false.
getEnabledStrict(cfg) == cfg.enabled = Bool(TRUE)

\* this.config.enabled === undefined || this.config.enabled
getEnabled(cfg) == cfg.enabled = Undef \/ cfg.enabled = Bool(TRUE)

\* shouldUpdateFile without the getEnabled() guard.
shouldUpdateFileAlways(cfg, text, source) == text # source

\* this.getEnabled() && this.renderAsText() !== this.sourceText
shouldUpdateFile(cfg, text, source) == getEnabled(cfg) /\ text # source

EnabledConfigs ==
    {[NoConfig EXCEPT !.enabled = e] : e \in {Undef, Bool(TRUE), Bool(FALSE)}}

Texts == {"", "Q", "Q\nA", "Q\nA\n", "Q\nB", "q\na"}

InitNote ==
    /\ config \in EnabledConfigs
    /\ sourceText \in Texts
    /\ rendered \in Texts
    /\ settings = Undef
    /\ fields = Undef
    /\ isCloze = FALSE
    /\ folder = <<>>
    /\ cache = Null
    /\ noteInfo = Undef
    /\ result = Undef
    /\ call = "none"
    /\ ret = Undef

GetEnabled ==
    /\ call = "none"
    /\ call' = "getEnabled"
    /\ ret' = Return(getEnabled(config))
    /\ UNCHANGED <<config, isCloze, fields, sourceText, folder, settings,
                   cache, rendered, noteInfo, result>>

ShouldUpdateFile ==
    /\ call = "none"
    /\ call' = "shouldUpdateFile"
    /\ ret' = Return(shouldUpdateFile(config, rendered, sourceText))
    /\ UNCHANGED <<config, isCloze, fields, sourceText, folder, settings,
                   cache, rendered, noteInfo, result>>

NextNote ==
    \/ GetEnabled
    \/ ShouldUpdateFile

SpecNote == InitNote /\ [][NextNote]_vars

\* C5: shouldUpdateFile returns true exactly when the note is not disabled
\* (config.enabled is not false) and the rendered text is not the source
\* text; for a disabled note it returns false whatever the two texts are.
ShouldUpdateIffEnabledAndDrifted ==
    call = "shouldUpdateFile" =>
        /\ ret.v = TRUE <=> (config.enabled # Bool(FALSE) /\ rendered # sourceText)
        /\ config.enabled = Bool(FALSE) => ret.v = FALSE

\* C5, witnessed: a disabled note whose text drifted is not stale.
ShouldUpdateWitness ==
    /\ call = "shouldUpdateFile"
    /\ config.enabled = Bool(FALSE)
    /\ rendered # sourceText
    /\ ret.v = FALSE

\* C6: getEnabled returns true when config.enabled is absent and the stored
\* boolean otherwise.
EnabledDefaultsToTrue ==
    call = "getEnabled" =>
        /\ config.enabled = Undef => ret.v = TRUE
        /\ config.enabled # Undef => ret.v = config.enabled.v

\* C6, witnessed: getEnabled answered true for a config without enabled.
EnabledDefaultsToTrueWitness ==
    /\ call = "getEnabled"
    /\ config.enabled = Undef
    /\ ret.v = TRUE

----------------------------------------------------------------------------
(* ParseConfig.fromResult and ParseConfigSchema *)

MaxKeys == 2

Obj(m) == [k |-> "obj", v |-> m]

\* The empty object.
NoKeys == [key \in {} |-> Undef]

\* A config text is null, the text of one YAML scalar or flow sequence
\* (Str), or the text of a block mapping "key: value", one line per key
\* (MapText, each key with the text of its value).
MapText(lines) == [k |-> "maptext", v |-> lines]

\* js-yaml's reading of the text of one node, for the texts used here; the
\* text of a mapping that never closes its flow sequence does not parse.
YamlNode(text) ==
    CASE text \in {"", "~"} -> Null
      [] text = "true" -> Bool(TRUE)
      [] text = "false" -> Bool(FALSE)
      [] text = "0" -> Num(0)
      [] text = "1" -> Num(1)
      [] text = "12" -> Num(12)
      [] text = "''" -> Str("")
      [] text = "'12'" -> Str("12")
      [] text = "'true'" -> Str("true")
      [] text = "'[\"verbs\"]'" -> Str("[\"verbs\"]")
      [] text = "[verbs]" -> Arr(<<Str("verbs")>>)
      [] text = "[verbs, 1]" -> Arr(<<Str("verbs"), Num(1)>>)
      [] text = "[~]" -> Arr(<<Null>>)
      [] text = "{}" -> Obj(NoKeys)
      [] text = "deck: [" -> Throw("YAMLException", "")
      [] OTHER -> Str(text)

\* load(text): nothing for the empty text, else the document's node.
load(text) ==
    IF text.k = "maptext"
    THEN Obj([key \in DOMAIN text.v |-> YamlNode(text.v[key])])
    ELSE IF text.v = "" THEN Undef
    ELSE YamlNode(text.v)

\* JavaScript's truthiness.
ToBoolean(x) ==
    CASE x.k \in {"undef", "null", "nan"} -> FALSE
      [] x.k = "bool" -> x.v
      [] x.k = "num" -> x.v # 0
      [] x.k = "str" -> x.v # ""
      [] OTHER -> TRUE

\* Number to string, for the numbers used here.
NumberToString(n) ==
    CASE n = 0 -> "0" [] n = 1 -> "1" [] n = 12 -> "12"

\* String(x)
RECURSIVE StringOf(_)
StringOf(x) ==
    CASE x.k = "str" -> x.v
      [] x.k = "num" -> NumberToString(x.v)
      [] x.k = "bool" -> IF x.v THEN "true" ELSE "false"
      [] x.k = "null" -> "null"
      [] x.k = "undef" -> "undefined"
      [] x.k = "nan" -> "NaN"
      [] x.k = "obj" -> "[object Object]"
      [] x.k = "arr" ->
            IF x.v = <<>> THEN ""
            ELSE LET first == IF x.v[1].k \in {"null", "undef"} THEN ""
                              ELSE StringOf(x.v[1])
                 IN  IF Len(x.v) = 1 THEN first
                     ELSE first \o "," \o StringOf(Arr(Tail(x.v)))

\* Number(s) and parseFloat(s) of the texts used here: the number a string
\* spells, or NaN.
StringToNumber(s) ==
    CASE s = "0" -> Num(0) [] s = "1" -> Num(1) [] s = "12" -> Num(12)
      [] OTHER -> NaN

\* JSON.parse(s) of the texts used here; a SyntaxError for the others.
JsonParse(s) ==
    CASE s = "[\"verbs\"]" -> Arr(<<Str("verbs")>>)
      [] s = "true" -> Bool(TRUE)
      [] s = "false" -> Bool(FALSE)
      [] s \in {"0", "1", "12"} -> StringToNumber(s)
      [] OTHER -> Throw("SyntaxError", "")

KnownFields ==
    {"id", "deck", "tags", "delete", "enabled", "cloze", "clozeReplacements"}

\* ParseConfigSchema with .required() in place of .notRequired().
FieldSchemaTagsRequired(key) ==
    CASE key = "id" ->
            [type |-> "number", nullable |-> TRUE, required |-> FALSE,
             default |-> Null, emptyAsUndefined |-> FALSE, nullAsUndefined |-> FALSE]
      [] key = "deck" ->
            [type |-> "string", nullable |-> FALSE, required |-> FALSE,
             default |-> Undef, emptyAsUndefined |-> TRUE, nullAsUndefined |-> TRUE]
      [] key \in {"tags", "clozeReplacements"} ->
            [type |-> "array", nullable |-> FALSE, required |-> TRUE,
             default |-> Undef, emptyAsUndefined |-> FALSE, nullAsUndefined |-> FALSE]
      [] key \in {"delete", "enabled", "cloze"} ->
            [type |-> "boolean", nullable |-> FALSE, required |-> FALSE,
             default |-> Undef, emptyAsUndefined |-> FALSE, nullAsUndefined |-> TRUE]

\* ParseConfigSchema with tags: yup.string().
FieldSchemaTagsAsString(key) ==
    CASE key = "id" ->
            [type |-> "number", nullable |-> TRUE, required |-> FALSE,
             default |-> Null, emptyAsUndefined |-> FALSE, nullAsUndefined |-> FALSE]
      [] key \in {"deck", "tags"} ->
            [type |-> "string", nullable |-> FALSE, required |-> FALSE,
             default |-> Undef, emptyAsUndefined |-> TRUE, nullAsUndefined |-> TRUE]
      [] key = "clozeReplacements" ->
            [type |-> "array", nullable |-> FALSE, required |-> FALSE,
             default |-> Undef, emptyAsUndefined |-> FALSE, nullAsUndefined |-> FALSE]
      [] key \in {"delete", "enabled", "cloze"} ->
            [type |-> "boolean", nullable |-> FALSE, required |-> FALSE,
             default |-> Undef, emptyAsUndefined |-> FALSE, nullAsUndefined |-> TRUE]

\* ParseConfigSchema, field by field. number(), string(), boolean() and
\* array() are neither nullable nor required and default to undefined unless
\* the chain says so.
FieldSchema(key) ==
    CASE key = "id" ->
            [type |-> "number", nullable |-> TRUE, required |-> FALSE,
             default |-> Null, emptyAsUndefined |-> FALSE, nullAsUndefined |-> FALSE]
      [] key = "deck" ->
            [type |-> "string", nullable |-> FALSE, required |-> FALSE,
             default |-> Undef, emptyAsUndefined |-> TRUE, nullAsUndefined |-> TRUE]
      [] key \in {"tags", "clozeReplacements"} ->
            [type |-> "array", nullable |-> FALSE, required |-> FALSE,
             default |-> Undef, emptyAsUndefined |-> FALSE, nullAsUndefined |-> FALSE]
      [] key \in {"delete", "enabled", "cloze"} ->
            [type |-> "boolean", nullable |-> FALSE, required |-> FALSE,
             default |-> Undef, emptyAsUndefined |-> FALSE, nullAsUndefined |-> TRUE]

\* yup's type checks (_typeCheck).
IsOfType(type, x) ==
    CASE type = "number" -> x.k = "num"
      [] type = "string" -> x.k = "str"
      [] type = "boolean" -> x.k = "bool"
      [] type = "array" -> x.k = "arr"
      [] type = "object" -> x.k = "obj"

\* Schema.isType: null is of a nullable schema's type.
IsType(sch, x) == (sch.nullable /\ x = Null) \/ IsOfType(sch.type, x)

\* yup.string()'s transform: anything but null, an array or a plain object
\* becomes its string.
CastString(x) ==
    IF x.k \in {"str", "arr", "null", "undef", "obj"} THEN x
    ELSE Str(StringOf(x))

\* yup.number()'s transform: a string is read as a number, anything else
\* that is no number goes through parseFloat.
CastNumber(sch, x) ==
    LET parsed == IF x.k = "str" THEN StringToNumber(x.v) ELSE x
    IN  IF x.k = "str" /\ x.v = "" THEN NaN
        ELSE IF IsType(sch, parsed) THEN parsed
        ELSE StringToNumber(StringOf(parsed))

\* yup.boolean()'s transform: /^(true|1)$/i and /^(false|0)$/i on String(x).
CastBoolean(sch, x) ==
    IF IsType(sch, x) THEN x
    ELSE IF StringOf(x) \in {"true", "1"} THEN Bool(TRUE)
    ELSE IF StringOf(x) \in {"false", "0"} THEN Bool(FALSE)
    ELSE x

\* yup.array()'s transform: a string is read as JSON; what is no array
\* becomes null. The elements of an array are cast by yup.string().
CastArray(sch, x) ==
    LET values == IF x.k = "str"
                  THEN (IF JsonParse(x.v).k = "throw" THEN Null
                        ELSE JsonParse(x.v))
                  ELSE x
    IN  IF values.k = "arr"
        THEN Arr([i \in DOMAIN values.v |-> CastString(values.v[i])])
        ELSE IF IsType(sch, values) THEN values
        ELSE Null

\* The schema methods of ankibridge/utils/yup: the empty string, and null,
\* become undefined.
emptyAsUndefined(x) == IF x = Str("") THEN Undef ELSE x

nullAsUndefined(x) == IF x = Null THEN Undef ELSE x

\* Schema.cast of one field: undefined skips the transforms; undefined after
\* them takes the default.
CastField(key, x) ==
    LET sch == FieldSchema(key)
        typed == CASE sch.type = "number" -> CastNumber(sch, x)
                   [] sch.type = "string" -> CastString(x)
                   [] sch.type = "boolean" -> CastBoolean(sch, x)
                   [] sch.type = "array" -> CastArray(sch, x)
        nonEmpty == IF sch.emptyAsUndefined THEN emptyAsUndefined(typed)
                    ELSE typed
        nonNull == IF sch.nullAsUndefined THEN nullAsUndefined(nonEmpty)
                   ELSE nonEmpty
        value == IF x = Undef THEN Undef ELSE nonNull
    IN  IF value = Undef THEN sch.default ELSE value

\* The path of an array element, "tags[0]".
ElementPath(key, i) == key \o "[" \o NumberToString(i - 1) \o "]"

\* The paths at which the cast value of a field fails validation.
FieldErrors(key, x) ==
    LET sch == FieldSchema(key)
    IN  IF x = Undef THEN (IF sch.required THEN {key} ELSE {})
        ELSE IF ~IsType(sch, x) THEN {key}
        ELSE IF x.k = "arr"
        THEN {ElementPath(key, i) : i \in {j \in DOMAIN x.v : x.v[j].k # "str"}}
        ELSE {}

\* The object schema's cast of a mapping: every known field is cast and kept
\* unless undefined; unknown keys are kept as they are.
CastObject(m) ==
    LET castOf == [key \in KnownFields |->
                      CastField(key, IF key \in DOMAIN m THEN m[key] ELSE Undef)]
        kept == {key \in KnownFields : castOf[key] # Undef}
    IN  [key \in kept \cup (DOMAIN m \ KnownFields) |->
            IF key \in KnownFields THEN castOf[key] ELSE m[key]]

\* ParseConfigSchema.validate(x): the outcomes it may end in. The object
\* schema reads a string as JSON and takes what is no plain object for null,
\* which it rejects; validation stops at the first field that fails.
validate(x) ==
    LET parsed == IF x.k = "str"
                  THEN (IF JsonParse(x.v).k = "throw" THEN Null
                        ELSE JsonParse(x.v))
                  ELSE x
    IN  IF parsed.k # "obj" THEN {Throw("ValidationError", "")}
        ELSE LET value == CastObject(parsed.v)
                 errors == UNION {FieldErrors(key,
                                     IF key \in DOMAIN value THEN value[key]
                                     ELSE Undef) : key \in KnownFields}
             IN  IF errors = {} THEN {Return(Obj(value))}
                 ELSE {Throw("ValidationError", path) : path \in errors}

\* fromResult with load(configStr) ?? { id: null }.
fromResultCoalescing(configText) ==
    LET configStr == IF ToBoolean(configText) THEN configText ELSE Str("")
        loaded == load(configStr)
    IN  IF loaded.k = "throw" THEN {loaded}
        ELSE validate(IF loaded \notin {Undef, Null} THEN loaded
                      ELSE Obj([key \in {"id"} |-> Null]))

\* ParseConfig.fromResult(result), result.config being configText: the
\* outcomes the promise may settle with.
fromResult(configText) ==
    LET configStr == IF ToBoolean(configText) THEN configText ELSE Str("")
        loaded == load(configStr)
    IN  IF loaded.k = "throw" THEN {loaded}
        ELSE validate(IF ToBoolean(loaded) THEN loaded
                      ELSE Obj([key \in {"id"} |-> Null]))

\* The texts of a value in a mapping, and of a document that is no mapping.
ValueTexts ==
    {"", "notalist", "Spanish", "true", "false", "0", "1", "12", "''", "'12'",
     "'true'", "'[\"verbs\"]'", "[verbs]", "[verbs, 1]", "[~]", "{}"}

DocumentTexts == {"", "~", "hello", "false", "0", "12", "true", "''",
                  "[verbs]", "{}", "deck: ["}

Keys == KnownFields \cup {"color"}

ConfigTexts ==
    {Null} \cup {Str(t) : t \in DocumentTexts}
           \cup {MapText(lines) :
                    lines \in UNION {[ks -> ValueTexts] :
                                 ks \in {ks \in SUBSET Keys :
                                            /\ ks # {}
                                            /\ Cardinality(ks) <= MaxKeys}}}

InitConfig ==
    /\ result \in ConfigTexts
    /\ config = NoConfig
    /\ settings = Undef
    /\ fields = Undef
    /\ isCloze = FALSE
    /\ folder = <<>>
    /\ cache = Null
    /\ sourceText = ""
    /\ rendered = ""
    /\ noteInfo = Undef
    /\ call = "none"
    /\ ret = Undef

FromResult ==
    /\ call = "none"
    /\ call' = "fromResult"
    /\ ret' \in fromResult(result)
    /\ UNCHANGED <<config, isCloze, fields, sourceText, folder, settings,
                   cache, rendered, noteInfo, result>>

NextConfig == FromResult

SpecConfig == InitConfig /\ [][NextConfig]_vars

\* The validated config holds id = null and no other known field.
OnlyNullId ==
    /\ ret.k = "return"
    /\ ret.v.k = "obj"
    /\ DOMAIN ret.v.v \cap KnownFields = {"id"}
    /\ ret.v.v["id"] = Null

\* C7: for a config text that is null or empty, fromResult resolves with a
\* config whose id is null and whose deck, tags, delete, enabled, cloze and
\* clozeReplacements are absent.
EmptyConfigTextGivesNullId ==
    call = "fromResult" /\ result \in {Null, Str("")} => OnlyNullId

\* C7, witnessed: fromResult resolved the null config text with id = null.
EmptyConfigTextGivesNullIdWitness ==
    /\ call = "fromResult"
    /\ result = Null
    /\ ret = Return(Obj([key \in {"id"} |-> Null]))

\* The mapping the config text parses to.
ParsedMapping == load(result).v

\* C8 as stated: a known field holds a value of another primitive type than
\* the field's (null, which stands for an absent value, aside).
WrongType(key, x) ==
    CASE key = "id" -> x.k \notin {"num", "null"}
      [] key = "deck" -> x.k \notin {"str", "null"}
      [] key \in {"tags", "clozeReplacements"} -> x.k \notin {"arr", "null"}
      [] key \in {"delete", "enabled", "cloze"} -> x.k \notin {"bool", "null"}

NumericTexts == {"0", "1", "12"}
BooleanTexts == {"true", "false", "1", "0"}
JsonArrayTexts == {"[\"verbs\"]"}

\* The values yup's casts cannot turn into a value of the field's type.
CannotCast(key, x) ==
    CASE key = "id" ->
            x.k \notin {"num", "null"} /\ StringOf(x) \notin NumericTexts
      [] key = "deck" -> x.k \in {"arr", "obj"}
      [] key \in {"tags", "clozeReplacements"} ->
            x.k # "arr" /\ ~(x.k = "str" /\ x.v \in JsonArrayTexts)
      [] key \in {"delete", "enabled", "cloze"} ->
            x.k \notin {"bool", "null"} /\ StringOf(x) \notin BooleanTexts

\* The paths of a field that validation cannot accept: the field itself, or
\* the elements of a sequence that are null, sequences or mappings.
BadPaths(key, x) ==
    IF CannotCast(key, x) THEN {key}
    ELSE IF key \in {"tags", "clozeReplacements"} /\ x.k = "arr"
    THEN {ElementPath(key, i) :
             i \in {j \in DOMAIN x.v : x.v[j].k \in {"null", "arr", "obj"}}}
    ELSE {}

Loaded == load(IF result = Null THEN Str("") ELSE result)

\* C10 as stated: for a config text that is empty or does not parse to a
\* mapping, fromResult resolves with id = null and every other field absent.
NonMappingGivesNullId ==
    (call = "fromResult" /\ result.k \in {"null", "str"} /\ Loaded.k # "throw")
        => OnlyNullId

\* C10: fromResult takes the config for { id: null } when the text is empty
\* or parses to a falsy value (null, false, 0, the empty string), and then
\* resolves with id = null and every other field absent; a text that parses
\* to another scalar or to a sequence goes to validation as it is and is
\* rejected.
FalsyGivesNullId ==
    call = "fromResult" /\ result.k \in {"null", "str"} =>
        /\ Loaded.k \in {"undef", "null"} => OnlyNullId
        /\ (Loaded = Bool(FALSE) \/ Loaded = Num(0) \/ Loaded = Str(""))
               => OnlyNullId
        /\ (\/ Loaded = Bool(TRUE)
            \/ Loaded.k = "num" /\ Loaded.v # 0
            \/ Loaded.k = "str" /\ Loaded.v = "hello"
            \/ Loaded.k = "arr")
               => ret = Throw("ValidationError", "")

\* C10, witnessed: the text "0" parsed to a falsy scalar and the config came
\* out as { id: null }.
FalsyGivesNullIdWitness ==
    /\ call = "fromResult"
    /\ result = Str("0")
    /\ OnlyNullId

====
